---- MODULE Spec2Model ----
(***************************************************************************)
(* A model of phase_o_matic/download.py: download_era, the request builder *)
(* and filename-keyed cache check in front of the cdsapi retrieval client. *)
(*                                                                         *)
(* Coordinates are held as integers counting sixteenths of a degree.  Each *)
(* such value is exactly representable as a binary float, so the float     *)
(* arithmetic of the source (subtraction, abs, max, min) is exact on them  *)
(* and '.2f' formatting is exact round-half-to-even on the decimal value.  *)
(* A timestamp is a record [y, d, h, m]: year, day of the year, hour and   *)
(* minute.  A path is a record [dir, stamp, suffix].                       *)
(***************************************************************************)
EXTENDS Integers, Sequences, FiniteSets, TLC

VARIABLES
    creds,      \* does ~/.cdsapirc exist
    dirs,       \* the directories that exist (resolved names)
    now,        \* the wall clock, datetime.now()
    ticks,      \* how often the clock has advanced
    fs,         \* the files that exist: path -> content
    args,       \* the arguments of each call of download_era
    pc,         \* the position of each call
    nowAt,      \* the clock value each call read at line 46
    out_fp,     \* the local out_fp of each call
    indict,     \* the local indict of each call
    exists,     \* what out_fp.exists() answered at line 85
    retrieved,  \* the c.retrieve invocations of each call, in order
    outcome,    \* how each call ended
    fsBefore,   \* the files when the call began
    fsAfter     \* the files when the call ended

vars == <<creds, dirs, now, ticks, fs, args, pc, nowAt, out_fp, indict,
          exists, retrieved, outcome, fsBefore, fsAfter>>

\* The resolution of the coordinates: this many steps to a degree.
Unit == 16

LonLimit == 180
LatLimit == 90
LastYearBefore == 1939

\* How often the clock may advance in a behaviour.
MaxTicks == 1

Calls == {1, 2}

Deg(d) == d * Unit

----------------------------------------------------------------------------
(* Pure helpers *)

Abs(x) == IF x < 0 THEN -x ELSE x

Maximum(a, b) == IF a >= b THEN a ELSE b

Minimum(a, b) == IF a <= b THEN a ELSE b

\* a < b on timestamps
Before(a, b) ==
    \/ a.y < b.y
    \/ a.y = b.y /\ a.d < b.d
    \/ a.y = b.y /\ a.d = b.d /\ a.h < b.h
    \/ a.y = b.y /\ a.d = b.d /\ a.h = b.h /\ a.m < b.m

\* out_dir.expanduser().resolve(), with "/" the working directory
Resolve(d) == IF d = "data" THEN "/data" ELSE d

era_pressure_lvls ==
    <<1, 2, 3, 5, 7, 10, 20, 30, 50, 70, 100, 125, 150, 175, 200, 225, 250,
      300, 350, 400, 450, 500, 550, 600, 650, 700, 750, 775, 800, 825, 850,
      875, 900, 925, 950, 975, 1000>>

\* date.strftime('%Y-%m-%d') and date.strftime('%H:00'): the minute is dropped
DateStr(date) == <<date.y, date.d>>

TimeStr(date) == date.h

\* date.strftime('%Y-%m-%dT%H:00')
StampStr(date) == <<date.y, date.d, date.h>>

\* the bug of cutting the value off after two decimals
Fmt2Floor(x) == (x * 100) \div Unit

\* f'{b:.2f}': the value in hundredths, rounded half to even
Fmt2(x) ==
    LET num == x * 100
        q   == num \div Unit
        r   == num % Unit
    IN  IF 2 * r < Unit THEN q
        ELSE IF 2 * r > Unit THEN q + 1
        ELSE IF q % 2 = 0 THEN q ELSE q + 1

\* subset.bounds is <<w, s, e, n>>; no subset is <<>>
West(b)  == b[1]
South(b) == b[2]
East(b)  == b[3]
North(b) == b[4]

\* the bug of accepting a bound that lies on the limit
BoundsErrorInclusive(b) ==
    IF ~(West(b) >= -Deg(LonLimit) /\ West(b) <= Deg(LonLimit)) THEN "err_west"
    ELSE IF ~(East(b) >= -Deg(LonLimit) /\ East(b) <= Deg(LonLimit)) THEN "err_east"
    ELSE IF ~(North(b) >= -Deg(LatLimit) /\ North(b) <= Deg(LatLimit)) THEN "err_north"
    ELSE IF ~(South(b) >= -Deg(LatLimit) /\ South(b) <= Deg(LatLimit)) THEN "err_south"
    ELSE ""

\* lines 66-69, in the order of the assertions; "" when all pass
BoundsError(b) ==
    IF ~(West(b) > -Deg(LonLimit) /\ West(b) < Deg(LonLimit)) THEN "err_west"
    ELSE IF ~(East(b) > -Deg(LonLimit) /\ East(b) < Deg(LonLimit)) THEN "err_east"
    ELSE IF ~(North(b) > -Deg(LatLimit) /\ North(b) < Deg(LatLimit)) THEN "err_north"
    ELSE IF ~(South(b) > -Deg(LatLimit) /\ South(b) < Deg(LatLimit)) THEN "err_south"
    ELSE ""

\* the bug of leaving out the clamping to the globe
ExpandNoClamp(b) ==
    LET w == West(b) - Abs(East(b) - West(b))
        e == East(b) + Abs(East(b) - w)
        s == South(b) - Abs(North(b) - South(b))
        n == North(b) + Abs(North(b) - s)
    IN  <<w, s, e, n>>

\* lines 73-76: each assignment reads the variables as they are by then
Expand(b) ==
    LET w == Maximum(West(b) - Abs(East(b) - West(b)), -Deg(LonLimit))
        e == Minimum(East(b) + Abs(East(b) - w), Deg(LonLimit))
        s == Maximum(South(b) - Abs(North(b) - South(b)), -Deg(LatLimit))
        n == Minimum(North(b) + Abs(North(b) - s), Deg(LatLimit))
    IN  <<w, s, e, n>>

\* w, s, e, n as they are after line 76
BoundsAfterLOS(b, LOS) == IF LOS THEN Expand(b) ELSE b

\* line 79: [n, w, s, e]
Area(b) == <<North(b), West(b), South(b), East(b)>>

\* line 82: [w, s, e, n], each '.2f'
Suffix(b) == <<Fmt2(West(b)), Fmt2(South(b)), Fmt2(East(b)), Fmt2(North(b))>>

\* lines 50-55 and 79; area <<>> stands for no 'area' key
BuildIndict(a) ==
    [product_type   |-> "reanalysis",
     format         |-> "netcdf",
     variable       |-> <<"geopotential", "temperature", a.humid_param>>,
     pressure_level |-> era_pressure_lvls,
     date           |-> DateStr(a.date),
     time           |-> TimeStr(a.date),
     area           |-> IF a.subset # <<>>
                        THEN Area(BoundsAfterLOS(a.subset, a.LOS))
                        ELSE <<>>]

\* the bug of a filename that tells the humidity variables apart
BuildOutFpWithHumid(a) ==
    [dir    |-> Resolve(a.out_dir),
     stamp  |-> StampStr(a.date),
     suffix |-> IF a.subset # <<>>
                THEN Suffix(BoundsAfterLOS(a.subset, a.LOS))
                ELSE <<>>,
     humid  |-> a.humid_param]

\* lines 58 and 82
BuildOutFp(a) ==
    [dir    |-> Resolve(a.out_dir),
     stamp  |-> StampStr(a.date),
     suffix |-> IF a.subset # <<>>
                THEN Suffix(BoundsAfterLOS(a.subset, a.LOS))
                ELSE <<>>]

\* the bug of not checking the bounds of the subset
ValidateNoBounds(a, c, ds, t) ==
    IF ~c THEN "err_creds"
    ELSE IF Resolve(a.out_dir) \notin ds THEN "err_out_dir"
    ELSE IF ~Before(a.date, t) THEN "err_future"
    ELSE IF ~(a.date.y > LastYearBefore) THEN "err_before_1940"
    ELSE ""

\* the bug of refusing the year 1940 too
ValidateFrom1941(a, c, ds, t) ==
    IF ~c THEN "err_creds"
    ELSE IF Resolve(a.out_dir) \notin ds THEN "err_out_dir"
    ELSE IF ~Before(a.date, t) THEN "err_future"
    ELSE IF ~(a.date.y > LastYearBefore + 1) THEN "err_before_1940"
    ELSE IF a.subset # <<>> THEN BoundsError(a.subset)
    ELSE ""

\* lines 25-69: the first assertion that fails, "" when none does
Validate(a, c, ds, t) ==
    IF ~c THEN "err_creds"
    ELSE IF Resolve(a.out_dir) \notin ds THEN "err_out_dir"
    ELSE IF ~Before(a.date, t) THEN "err_future"
    ELSE IF ~(a.date.y > LastYearBefore) THEN "err_before_1940"
    ELSE IF a.subset # <<>> THEN BoundsError(a.subset)
    ELSE ""

\* the bug of retrieving whether the file exists or not
ShouldRetrieveAlways(ex, overwrite) == TRUE

\* the bug of never overwriting
ShouldRetrieveIfAbsent(ex, overwrite) == ~ex

\* line 85
ShouldRetrieve(ex, overwrite) == ~ex \/ overwrite = TRUE

----------------------------------------------------------------------------
(* Values *)

NoPath == [dir |-> "", stamp |-> <<>>, suffix |-> <<>>]

NoIndict ==
    [product_type |-> "", format |-> "", variable |-> <<>>,
     pressure_level |-> <<>>, date |-> <<>>, time |-> -1, area |-> <<>>]

NoTime == [y |-> 0, d |-> 0, h |-> 0, m |-> 0]

EmptyFs == [x \in {} |-> NoIndict]

\* a file some earlier program left behind
OldFile == [kind |-> "old", req |-> NoIndict]

StartOfClock == [y |-> 2026, d |-> 100, h |-> 6, m |-> 0]

T(y, d, h, m) == [y |-> y, d |-> d, h |-> h, m |-> m]

Lons(S) == {<<w, e>> \in S \X S : w <= e}

Boxes(LonS, LatS) ==
    {<<lon[1], lat[1], lon[2], lat[2]>> : lon \in Lons(LonS), lat \in Lons(LatS)}

ArgsOf(dates, outdirs, subsets, humids, loss, overwrites) ==
    [date : dates, out_dir : outdirs, subset : subsets, humid_param : humids,
     LOS : loss, overwrite : overwrites]

Humids == {"specific_humidity", "relative_humidity"}

ValidDate == T(2020, 1, 12, 0)

\* the dates of the single-call specification
AllDates ==
    {T(1939, 365, 23, 0), T(1940, 1, 0, 0), T(1940, 1, 0, 30), T(1940, 2, 0, 0),
     ValidDate, T(2020, 1, 12, 30), StartOfClock, T(2026, 100, 7, 0),
     T(2026, 100, 8, 0)}

LonSamples ==
    {Deg(-180) - 1, Deg(-180), Deg(-170), Deg(-10), 2, Deg(10), Deg(10) + 3,
     Deg(170), Deg(180)}

LatSamples == {Deg(-90), Deg(-80), Deg(-5), Deg(5), Deg(5) + 1, Deg(80), Deg(90)}

SmallBox == <<Deg(-10), Deg(-5), Deg(10), Deg(5)>>

\* one call: every box with few dates, or every date with few boxes
OneCallArgs ==
    ArgsOf({ValidDate}, {"/data"}, Boxes(LonSamples, LatSamples), Humids,
           BOOLEAN, BOOLEAN)
    \cup
    ArgsOf(AllDates, {"/data", "data", "/missing"},
           {<<>>, SmallBox, <<Deg(-10), Deg(-5), Deg(10), Deg(90)>>},
           Humids, BOOLEAN, BOOLEAN)

\* two calls in sequence
TwoCallArgs ==
    ArgsOf({ValidDate, T(2020, 1, 12, 30)}, {"/data", "data"}, {<<>>, SmallBox},
           Humids, BOOLEAN, BOOLEAN)

\* two calls at the same time
ConcArgs ==
    ArgsOf({ValidDate}, {"/data"}, {<<>>, SmallBox}, Humids, BOOLEAN, BOOLEAN)

----------------------------------------------------------------------------
(* Initial states *)

InitCalls ==
    /\ pc = [p \in Calls |-> "idle"]
    /\ nowAt = [p \in Calls |-> NoTime]
    /\ out_fp = [p \in Calls |-> NoPath]
    /\ indict = [p \in Calls |-> NoIndict]
    /\ exists = [p \in Calls |-> FALSE]
    /\ retrieved = [p \in Calls |-> <<>>]
    /\ outcome = [p \in Calls |-> ""]
    /\ fsBefore = [p \in Calls |-> EmptyFs]
    /\ fsAfter = [p \in Calls |-> EmptyFs]

InitEnv ==
    /\ creds \in BOOLEAN
    /\ dirs = {"/data"}
    /\ now = StartOfClock
    /\ ticks = 0

\* one call; the file it names may be there already
InitOne ==
    /\ InitEnv
    /\ InitCalls
    /\ args \in [{1} -> OneCallArgs]
    /\ fs \in {EmptyFs, BuildOutFp(args[1]) :> OldFile}

InitTwo ==
    /\ InitEnv
    /\ InitCalls
    /\ args \in [Calls -> TwoCallArgs]
    /\ fs = EmptyFs

InitConc ==
    /\ InitEnv
    /\ InitCalls
    /\ args \in [Calls -> ConcArgs]
    /\ fs = EmptyFs

----------------------------------------------------------------------------
(* Actions *)

\* the clock advances by an hour
Tick ==
    /\ ticks < MaxTicks
    /\ ticks' = ticks + 1
    /\ now' = [now EXCEPT !.h = @ + 1]
    /\ UNCHANGED <<creds, dirs, fs, args, pc, nowAt, out_fp, indict, exists,
                   retrieved, outcome, fsBefore, fsAfter>>

\* lines 25-82: the assertions, indict and out_fp
Begin(p) ==
    /\ p \in DOMAIN args
    /\ pc[p] = "idle"
    /\ LET err == Validate(args[p], creds, dirs, now)
       IN  /\ nowAt' = [nowAt EXCEPT ![p] = now]
           /\ fsBefore' = [fsBefore EXCEPT ![p] = fs]
           /\ IF err # ""
              THEN /\ pc' = [pc EXCEPT ![p] = "done"]
                   /\ outcome' = [outcome EXCEPT ![p] = err]
                   /\ fsAfter' = [fsAfter EXCEPT ![p] = fs]
                   /\ UNCHANGED <<out_fp, indict>>
              ELSE /\ pc' = [pc EXCEPT ![p] = "check"]
                   /\ indict' = [indict EXCEPT ![p] = BuildIndict(args[p])]
                   /\ out_fp' = [out_fp EXCEPT ![p] = BuildOutFp(args[p])]
                   /\ UNCHANGED <<outcome, fsAfter>>
    /\ UNCHANGED <<creds, dirs, now, ticks, fs, args, exists, retrieved>>

\* line 85, and lines 88-90 when the file is kept
ExistsCheck(p) ==
    /\ pc[p] = "check"
    /\ LET ex == out_fp[p] \in DOMAIN fs
       IN  /\ exists' = [exists EXCEPT ![p] = ex]
           /\ IF ShouldRetrieve(ex, args[p].overwrite)
              THEN /\ pc' = [pc EXCEPT ![p] = "retrieve"]
                   /\ UNCHANGED <<outcome, fsAfter>>
              ELSE /\ pc' = [pc EXCEPT ![p] = "done"]
                   /\ outcome' = [outcome EXCEPT ![p] = "returned"]
                   /\ fsAfter' = [fsAfter EXCEPT ![p] = fs]
    /\ UNCHANGED <<creds, dirs, now, ticks, fs, args, nowAt, out_fp, indict,
                   retrieved, fsBefore>>

\* what c.retrieve leaves at the target: the file, nothing, or a part of it
Written(r, target, request) ==
    IF r = "ok" THEN (target :> [kind |-> "data", req |-> request]) @@ fs
    ELSE IF r = "partial" THEN (target :> [kind |-> "partial", req |-> request]) @@ fs
    ELSE fs

\* a retrieval that looks for the file again and keeps the one it finds
RetrieveIfAbsent(p, r) ==
    /\ pc[p] = "retrieve"
    /\ IF out_fp[p] \in DOMAIN fs /\ ~args[p].overwrite
       THEN /\ outcome' = [outcome EXCEPT ![p] = "returned"]
            /\ fsAfter' = [fsAfter EXCEPT ![p] = fs]
            /\ UNCHANGED <<retrieved, fs>>
       ELSE /\ retrieved' = [retrieved EXCEPT
                   ![p] = Append(@, [target |-> out_fp[p], request |-> indict[p]])]
            /\ fs' = Written(r, out_fp[p], indict[p])
            /\ fsAfter' = [fsAfter EXCEPT ![p] = fs']
            /\ outcome' = [outcome EXCEPT
                   ![p] = IF r = "ok" THEN "returned" ELSE "err_retrieve"]
    /\ pc' = [pc EXCEPT ![p] = "done"]
    /\ UNCHANGED <<creds, dirs, now, ticks, args, nowAt, out_fp, indict, exists,
                   fsBefore>>

\* lines 86-87: c.retrieve, whose error goes to the caller
Retrieve(p, r) ==
    /\ pc[p] = "retrieve"
    /\ retrieved' = [retrieved EXCEPT
                       ![p] = Append(@, [target |-> out_fp[p], request |-> indict[p]])]
    /\ fs' = Written(r, out_fp[p], indict[p])
    /\ fsAfter' = [fsAfter EXCEPT ![p] = fs']
    /\ outcome' = [outcome EXCEPT ![p] = IF r = "ok" THEN "returned" ELSE "err_retrieve"]
    /\ pc' = [pc EXCEPT ![p] = "done"]
    /\ UNCHANGED <<creds, dirs, now, ticks, args, nowAt, out_fp, indict, exists,
                   fsBefore>>

RetrieveResults == {"ok", "partial", "fail"}

\* one caller: a call begins when the one before it has ended
InOrder(p) == \A q \in Calls : q < p => pc[q] = "done"

Next ==
    \/ Tick
    \/ \E p \in Calls : InOrder(p) /\ Begin(p)
    \/ \E p \in Calls : ExistsCheck(p)
    \/ \E p \in Calls, r \in RetrieveResults : Retrieve(p, r)

\* two callers at the same time
NextConc ==
    \/ Tick
    \/ \E p \in Calls : Begin(p)
    \/ \E p \in Calls : ExistsCheck(p)
    \/ \E p \in Calls, r \in RetrieveResults : Retrieve(p, r)

\* two calls in sequence
Spec == InitTwo /\ [][Next]_vars

\* one call
SpecOne == InitOne /\ [][Next]_vars

\* two calls at the same time
SpecConc == InitConc /\ [][NextConc]_vars

----------------------------------------------------------------------------
(* Vocabulary of the properties *)

PreconditionErrors ==
    {"err_creds", "err_out_dir", "err_future", "err_before_1940", "err_west",
     "err_east", "err_north", "err_south"}

\* the call has passed every assertion
Validated(p) ==
    \/ pc[p] \in {"check", "retrieve"}
    \/ pc[p] = "done" /\ outcome[p] \in {"returned", "err_retrieve"}

\* the call has begun and the assertions before the date's passed
ReachedDateCheck(p) ==
    /\ p \in DOMAIN args
    /\ pc[p] # "idle"
    /\ creds
    /\ Resolve(args[p].out_dir) \in dirs

StartOf1940 == T(1940, 1, 0, 0)

StrictlyInside(x, limit) == -Deg(limit) < x /\ x < Deg(limit)

BoundsInside(b) ==
    /\ StrictlyInside(West(b), LonLimit)
    /\ StrictlyInside(East(b), LonLimit)
    /\ StrictlyInside(South(b), LatLimit)
    /\ StrictlyInside(North(b), LatLimit)

\* h hundredths is x to two decimals: no hundredth is nearer to x
TwoDecimals(h, x) == Abs(h * Unit - x * 100) * 2 <= Unit

\* the call invoked c.retrieve once, and it wrote the whole file
CreatedFile(p) ==
    /\ pc[p] = "done"
    /\ outcome[p] = "returned"
    /\ Len(retrieved[p]) = 1
    /\ out_fp[p] \notin DOMAIN fsBefore[p]
    /\ out_fp[p] \in DOMAIN fsAfter[p]

----------------------------------------------------------------------------
(* C1: when the same arguments are given twice in sequence with            *)
(* overwrite false and the first call's retrieval created the file, the    *)
(* second call does not invoke c.retrieve and returns the first's path.    *)
C1_SecondCallReuses ==
    (/\ pc[2] = "done"
     /\ args[1] = args[2]
     /\ args[1].overwrite = FALSE
     /\ CreatedFile(1))
    => /\ retrieved[2] = <<>>
       /\ outcome[2] = "returned"
       /\ out_fp[2] = out_fp[1]

C1_Witness ==
    /\ pc[2] = "done"
    /\ args[1] = args[2]
    /\ args[1].overwrite = FALSE
    /\ args[1].subset # <<>>
    /\ CreatedFile(1)
    /\ retrieved[2] = <<>>

(* C2: a call that passes validation invokes c.retrieve exactly once with  *)
(* the derived path as target when overwrite is true, whether the file     *)
(* exists or not; with overwrite false it invokes it exactly when no file  *)
(* exists at that path.                                                    *)
C2_RetrieveExactlyWhen ==
    \A p \in DOMAIN args :
        (pc[p] = "done" /\ Validated(p)) =>
            LET target  == BuildOutFp(args[p])
                present == target \in DOMAIN fsBefore[p]
            IN  /\ Len(retrieved[p]) <= 1
                /\ \A i \in 1..Len(retrieved[p]) : retrieved[p][i].target = target
                /\ args[p].overwrite => Len(retrieved[p]) = 1
                /\ ~args[p].overwrite => (Len(retrieved[p]) = 1 <=> ~present)

C2_Witness ==
    /\ pc[1] = "done"
    /\ Validated(1)
    /\ args[1].overwrite
    /\ BuildOutFp(args[1]) \in DOMAIN fsBefore[1]
    /\ Len(retrieved[1]) = 1

\* one of the preconditions of the call does not hold
PreconditionFails(p) ==
    \/ ~creds
    \/ Resolve(args[p].out_dir) \notin dirs
    \/ ~Before(args[p].date, nowAt[p])
    \/ Before(args[p].date, StartOf1940)
    \/ args[p].subset # <<>> /\ ~BoundsInside(args[p].subset)

(* C3: when a precondition fails (no credentials file, no output directory,*)
(* timestamp not before now, timestamp before 1940, a subset bound out of  *)
(* range) the call ends in an error with c.retrieve never invoked and the  *)
(* files unchanged, whatever overwrite is and whether the target exists.   *)
C3_FailFast ==
    \A p \in DOMAIN args :
        (pc[p] # "idle" /\ PreconditionFails(p)) =>
            /\ pc[p] = "done"
            /\ outcome[p] \in PreconditionErrors
            /\ retrieved[p] = <<>>
            /\ fsAfter[p] = fsBefore[p]
            /\ fs = fsBefore[p]

C3_Witness ==
    /\ pc[1] = "done"
    /\ creds
    /\ Resolve(args[1].out_dir) \in dirs
    /\ args[1].subset # <<>>
    /\ ~BoundsInside(args[1].subset)
    /\ args[1].overwrite
    /\ BuildOutFp(args[1]) \in DOMAIN fs
    /\ outcome[1] \in PreconditionErrors

\* a and b differ at most in the humidity variable and the LOS flag
SameButHumidAndLOS(a, b) ==
    /\ a.date = b.date
    /\ a.out_dir = b.out_dir
    /\ a.subset = b.subset
    /\ a.overwrite = b.overwrite

SameButHumid(a, b) ==
    /\ SameButHumidAndLOS(a, b)
    /\ a.LOS = b.LOS \/ a.subset = <<>>

C5_Original ==
    \A p \in DOMAIN args :
        (Validated(p) /\ args[p].subset # <<>>) =>
            /\ Len(out_fp[p].suffix) = 4
            /\ \A i \in 1..4 : TwoDecimals(out_fp[p].suffix[i], args[p].subset[i])

(* C5 as amended: with a subset, the suffix of the filename is the bounds  *)
(* w, s, e, n as sent in the request's area, in that order, each to two    *)
(* decimals: the original bounds with LOS false, the expanded ones with    *)
(* LOS true.                                                               *)
C5_SuffixIsRequestedArea ==
    \A p \in DOMAIN args :
        (Validated(p) /\ args[p].subset # <<>>) =>
            LET area == indict[p].area
                sent == <<area[2], area[3], area[4], area[1]>>
            IN  /\ Len(out_fp[p].suffix) = 4
                /\ \A i \in 1..4 : TwoDecimals(out_fp[p].suffix[i], sent[i])
                /\ ~args[p].LOS => sent = args[p].subset

C5_Witness ==
    /\ Validated(1)
    /\ args[1].LOS
    /\ args[1].subset = <<2, Deg(5) + 1, Deg(10) + 3, Deg(80)>>
    /\ out_fp[1].suffix # Suffix(args[1].subset)

(* C6: with LOS true the area sent is west' = max(w - |e-w|, -180),        *)
(* east' = min(e + |e-w|, 180), south' = max(s - |n-s|, -90),              *)
(* north' = min(n + |n-s|, 90), every width and height taken from the      *)
(* original bounds; w=-10, e=10, s=-5, n=5 gives -30, 30, -15, 15.         *)
C6_Original ==
    \A p \in DOMAIN args :
        (Validated(p) /\ args[p].subset # <<>> /\ args[p].LOS) =>
            LET b  == args[p].subset
                dx == Abs(East(b) - West(b))
                dy == Abs(North(b) - South(b))
            IN  indict[p].area =
                    <<Minimum(North(b) + dy, Deg(LatLimit)),
                      Maximum(West(b) - dx, -Deg(LonLimit)),
                      Maximum(South(b) - dy, -Deg(LatLimit)),
                      Minimum(East(b) + dx, Deg(LonLimit))>>

\* the call ended at one of the date's assertions
DateRejected(p) == outcome[p] \in {"err_future", "err_before_1940"}

(* C7: the date check passes exactly when the timestamp is strictly later  *)
(* than 1 January 1940 and strictly earlier than now.                      *)
C7_Original ==
    \A p \in DOMAIN args :
        ReachedDateCheck(p) =>
            (~DateRejected(p) <=>
                (Before(StartOf1940, args[p].date) /\ Before(args[p].date, nowAt[p])))

(* C7 as amended: the date check passes exactly when the timestamp is not  *)
(* earlier than 1 January 1940 00:00 and strictly earlier than now; so a   *)
(* timestamp at or after now and 1939-12-31 are rejected, and 1940-01-02   *)
(* and 1940-01-01 00:00 itself are accepted.                               *)
C7_DateWindow ==
    \A p \in DOMAIN args :
        ReachedDateCheck(p) =>
            (~DateRejected(p) <=>
                (~Before(args[p].date, StartOf1940) /\ Before(args[p].date, nowAt[p])))

C7_Witness ==
    /\ ReachedDateCheck(1)
    /\ args[1].date = StartOf1940
    /\ ~DateRejected(1)
    /\ Validated(1)

\* the call ended at one of the bounds' assertions
BoundsRejected(p) == outcome[p] \in {"err_west", "err_east", "err_north", "err_south"}

(* C8: a subset is accepted exactly when west and east are strictly inside *)
(* (-180, 180) and south and north strictly inside (-90, 90); a bound on a *)
(* limit or beyond it is an error, never clamped, whatever the LOS flag.   *)
C8_StrictBounds ==
    \A p \in DOMAIN args :
        (/\ ReachedDateCheck(p)
         /\ ~DateRejected(p)
         /\ args[p].subset # <<>>) =>
            /\ BoundsRejected(p) <=> ~BoundsInside(args[p].subset)
            /\ BoundsRejected(p) => (pc[p] = "done" /\ retrieved[p] = <<>>)

C8_Witness ==
    /\ ReachedDateCheck(1)
    /\ args[1].LOS
    /\ args[1].subset = <<Deg(-10), Deg(-5), Deg(180), Deg(5)>>
    /\ outcome[1] = "err_east"

(* C9: for a subset that passes validation and either LOS value, the area  *)
(* sent lies inside the globe, west' <= east' and south' <= north', it     *)
(* contains the original box, and it is ordered north/west/south/east.     *)
C9_AreaInsideGlobe ==
    \A p \in DOMAIN args :
        (Validated(p) /\ args[p].subset # <<>>) =>
            LET b    == args[p].subset
                area == indict[p].area
            IN  /\ Len(area) = 4
                /\ -Deg(LonLimit) <= area[2] /\ area[2] <= area[4]
                /\ area[4] <= Deg(LonLimit)
                /\ -Deg(LatLimit) <= area[3] /\ area[3] <= area[1]
                /\ area[1] <= Deg(LatLimit)
                /\ area[2] <= West(b) /\ area[4] >= East(b)
                /\ area[3] <= South(b) /\ area[1] >= North(b)
                /\ ~args[p].LOS => area = <<North(b), West(b), South(b), East(b)>>

C9_Witness ==
    /\ Validated(1)
    /\ args[1].LOS
    /\ args[1].subset = <<Deg(-170), Deg(-80), Deg(170), Deg(80)>>
    /\ indict[1].area = <<Deg(90), Deg(-180), Deg(-90), Deg(180)>>

(* C10: nothing makes the existence check and the retrieval atomic: when   *)
(* two calls with the same path and overwrite false both find the file     *)
(* absent, both invoke c.retrieve on that path.                            *)
C10_BothRetrieve ==
    \A p, q \in DOMAIN args :
        (/\ p # q
         /\ pc[p] = "done" /\ pc[q] = "done"
         /\ Validated(p) /\ Validated(q)
         /\ out_fp[p] = out_fp[q]
         /\ ~args[p].overwrite /\ ~args[q].overwrite
         /\ ~exists[p] /\ ~exists[q]) =>
            /\ Len(retrieved[p]) = 1
            /\ Len(retrieved[q]) = 1
            /\ retrieved[p][1].target = retrieved[q][1].target

C10_Witness ==
    /\ pc[1] = "done" /\ pc[2] = "done"
    /\ ~args[1].overwrite /\ ~args[2].overwrite
    /\ fsBefore[1] = EmptyFs /\ fsBefore[2] = EmptyFs
    /\ ~exists[1] /\ ~exists[2]
    /\ Len(retrieved[1]) = 1 /\ Len(retrieved[2]) = 1
    /\ retrieved[1][1].target = retrieved[2][1].target

====
